---- MODULE Spec2Model ----
(***************************************************************************)
(* Model of pycontrails/models/cocip/wind_shear.py: the three functions    *)
(* wind_shear_enhancement_factor, wind_shear_normal and wind_shear.        *)
(*                                                                         *)
(* Numbers.  A double is modelled as a record: a finite fixed-point value, *)
(* NaN, or a signed infinity, with IEEE-754 rules for the special values.  *)
(* Winds are whole m/s, dz whole metres, and a vertical gradient is held   *)
(* in units of 1e-4 1/s, so that 2e-3, 4e-3, 6e-3 are 20, 40, 60.  The     *)
(* square root rounds to the nearest unit, as the hardware rounds to the   *)
(* nearest double.                                                         *)
(*                                                                         *)
(* Arrays.  An argument is a plain Python float (kind "py") or a NumPy     *)
(* value (kind "np") of shape () or (n,); data is the row of its elements. *)
(***************************************************************************)
EXTENDS Integers, Sequences, FiniteSets, TLC

VARIABLES scenario, args, ef_args, ret_ws, ret_wsn, ret_ef,
          calls, pc, frame, ret, stdout

vars == <<scenario, args, ef_args, ret_ws, ret_wsn, ret_ef,
          calls, pc, frame, ret, stdout>>

seqvars == <<scenario, args, ef_args, ret_ws, ret_wsn, ret_ef>>
concvars == <<calls, pc, frame, ret, stdout>>

\* Longest array the callers pass.
MaxLen == 2
\* Number of concurrent callers of the interleaved specification.
NCallers == 2

-----------------------------------------------------------------------------
(* Doubles *)

Fin(n) == [k |-> "fin", v |-> n]
NaN == [k |-> "nan", v |-> 0]
PInf == [k |-> "inf", v |-> 1]
NInf == [k |-> "inf", v |-> -1]

IsNaN(x) == x.k = "nan"
IsInf(x) == x.k = "inf"
IsFin(x) == x.k = "fin"

Sign(n) == IF n > 0 THEN 1 ELSE IF n < 0 THEN -1 ELSE 0
AbsInt(n) == IF n < 0 THEN -n ELSE n
InfOf(s) == IF s > 0 THEN PInf ELSE NInf

Neg(x) == IF IsFin(x) THEN Fin(-x.v) ELSE IF IsInf(x) THEN InfOf(-x.v) ELSE NaN

Add(x, y) ==
    IF IsNaN(x) \/ IsNaN(y) THEN NaN
    ELSE IF IsInf(x) /\ IsInf(y) THEN (IF x.v = y.v THEN x ELSE NaN)
    ELSE IF IsInf(x) THEN x
    ELSE IF IsInf(y) THEN y
    ELSE Fin(x.v + y.v)

Sub(x, y) == Add(x, Neg(y))

Mul(x, y) ==
    IF IsNaN(x) \/ IsNaN(y) THEN NaN
    ELSE IF IsInf(x) \/ IsInf(y)
         THEN (IF Sign(x.v) * Sign(y.v) = 0 THEN NaN ELSE InfOf(Sign(x.v) * Sign(y.v)))
    ELSE Fin(x.v * y.v)

\* x / y of two doubles whose finite quotient is whole (the inputs are chosen so);
\* NumPy semantics: x/0 is a signed infinity, 0/0 is NaN.
DivWhole(x, y, scale) ==
    IF IsNaN(x) \/ IsNaN(y) THEN NaN
    ELSE IF IsInf(x) THEN (IF IsInf(y) THEN NaN
                           ELSE InfOf(x.v * (IF y.v < 0 THEN -1 ELSE 1)))
    ELSE IF IsInf(y) THEN Fin(0)
    ELSE IF y.v = 0 THEN (IF x.v = 0 THEN NaN ELSE InfOf(Sign(x.v)))
    ELSE Fin((x.v * scale) \div y.v)

\* gradient = wind difference [m/s] / dz [m], in units of 1e-4 1/s
DivGrad(x, y) == DivWhole(x, y, 10000)
\* resolution [m] / depth [m], a whole ratio
DivRatio(x, y) == DivWhole(x, y, 1)

Abs(x) == IF IsFin(x) THEN Fin(AbsInt(x.v)) ELSE IF IsInf(x) THEN PInf ELSE NaN

\* x <= y on doubles; false when either is NaN
Le(x, y) ==
    IF IsNaN(x) \/ IsNaN(y) THEN FALSE
    ELSE IF IsInf(x) THEN (x.v < 0 \/ (IsInf(y) /\ y.v > 0))
    ELSE IF IsInf(y) THEN y.v > 0
    ELSE x.v <= y.v

RoundSqrt(n) ==
    CHOOSE r \in 0..n : (r = 0 \/ (2*r - 1) * (2*r - 1) <= 4*n) /\ 4*n < (2*r + 1) * (2*r + 1)

\* x ** 0.5 for x >= 0
Sqrt(x) == IF IsFin(x) THEN Fin(RoundSqrt(x.v)) ELSE x

Square(x) == Mul(x, x)

RECURSIVE IntPow(_, _)
IntPow(b, n) == IF n = 0 THEN 1 ELSE b * IntPow(b, n - 1)

\* x ** n for a whole n >= 0 (pow(x, 0) is 1 for every x, NaN included)
Pow(x, y) ==
    IF IsFin(y) /\ y.v = 0 THEN Fin(1)
    ELSE IF IsNaN(x) \/ IsNaN(y) THEN NaN
    ELSE IF IsInf(x) THEN (IF x.v < 0 /\ y.v % 2 = 0 THEN PInf ELSE x)
    ELSE Fin(IntPow(x.v, y.v))

-----------------------------------------------------------------------------
(* Arrays and broadcasting *)

Py(x) == [kind |-> "py", shape |-> <<>>, data |-> <<x>>]
Np0(x) == [kind |-> "np", shape |-> <<>>, data |-> <<x>>]
Np1(xs) == [kind |-> "np", shape |-> <<Len(xs)>>, data |-> xs]

Size(shape) == IF shape = <<>> THEN 1 ELSE shape[1]

Broadcastable(s, t) == s = <<>> \/ t = <<>> \/ s[1] = t[1] \/ s[1] = 1 \/ t[1] = 1

BroadcastShape(s, t) ==
    IF s = <<>> THEN t
    ELSE IF t = <<>> THEN s
    ELSE IF s[1] = 1 THEN t
    ELSE s

Elem(a, i) == IF Len(a.data) = 1 THEN a.data[1] ELSE a.data[i]

ResultKind(a, b) == IF a.kind = "py" /\ b.kind = "py" THEN "py" ELSE "np"

\* the scalar operation named op
Apply2(op, x, y) ==
    CASE op = "-" -> Sub(x, y)
      [] op = "+" -> Add(x, y)
      [] op = "*" -> Mul(x, y)
      [] op = "/grad" -> DivGrad(x, y)
      [] op = "/ratio" -> DivRatio(x, y)
      [] op = "**" -> Pow(x, y)

Apply1(op, x) ==
    CASE op = "**2" -> Square(x)
      [] op = "**0.5" -> Sqrt(x)
      [] op = "0.5*(1.0+x)" -> Add(Fin(1), x)

\* a (op) b, element by element over the broadcast shape
Bin(op, a, b) ==
    LET shape == BroadcastShape(a.shape, b.shape)
    IN [kind |-> ResultKind(a, b),
        shape |-> shape,
        data |-> [i \in 1..Size(shape) |-> Apply2(op, Elem(a, i), Elem(b, i))]]

\* (op) a, element by element
Map(op, a) == [a EXCEPT !.data = [i \in 1..Len(a.data) |-> Apply1(op, a.data[i])]]

HasNaN(a) == \E i \in 1..Len(a.data) : IsNaN(a.data[i])


-----------------------------------------------------------------------------
(* NumPy and Python primitives the module calls *)

\* x / dz: Python's float / float raises on a zero divisor, NumPy's returns inf or NaN
TrueDivRaises(x, d) == x.kind = "py" /\ d.kind = "py" /\ d.data[1] = Fin(0)

\* np.max / np.min of a non-empty array; NaN propagates
Maximum(xs) ==
    IF \E i \in 1..Len(xs) : IsNaN(xs[i]) THEN NaN
    ELSE xs[CHOOSE i \in 1..Len(xs) : \A j \in 1..Len(xs) : Le(xs[j], xs[i])]

Minimum(xs) ==
    IF \E i \in 1..Len(xs) : IsNaN(xs[i]) THEN NaN
    ELSE xs[CHOOSE i \in 1..Len(xs) : \A j \in 1..Len(xs) : Le(xs[i], xs[j])]

\* the positions of the NaNs of xs if it has any, else those of its minimum
MinPositions(xs) ==
    IF \E i \in 1..Len(xs) : IsNaN(xs[i])
    THEN {i \in 1..Len(xs) : IsNaN(xs[i])}
    ELSE {i \in 1..Len(xs) : \A j \in 1..Len(xs) : Le(xs[i], xs[j])}

ArgMinLast(xs) == (CHOOSE i \in MinPositions(xs) : \A j \in MinPositions(xs) : j <= i) - 1

\* np.argmin of a non-empty row-major flattened array, 0-based:
\* the first NaN if there is one, else the first occurrence of the minimum
ArgMin(xs) == (CHOOSE i \in MinPositions(xs) : \A j \in MinPositions(xs) : i <= j) - 1

RECURSIVE Flatten(_)
Flatten(rows) == IF rows = <<>> THEN <<>> ELSE Head(rows) \o Flatten(Tail(rows))

\* str() of a whole number
Digit(d) == CASE d = 0 -> "0" [] d = 1 -> "1" [] d = 2 -> "2" [] d = 3 -> "3"
              [] d = 4 -> "4" [] d = 5 -> "5" [] d = 6 -> "6" [] d = 7 -> "7"
              [] d = 8 -> "8" [] d = 9 -> "9"

RECURSIVE NatStr(_)
NatStr(n) == IF n < 10 THEN Digit(n) ELSE NatStr(n \div 10) \o Digit(n % 10)

\* m as w digits, zero-padded on the left
RECURSIVE PadStr(_, _)
PadStr(m, w) == IF w = 1 THEN Digit(m % 10) ELSE PadStr(m \div 10, w - 1) \o Digit(m % 10)

\* the decimals of m/10^w without trailing zeros, at least one digit
RECURSIVE FracStr(_, _)
FracStr(m, w) ==
    IF w > 1 /\ m % 10 = 0 THEN FracStr(m \div 10, w - 1) ELSE PadStr(m, w)

\* str() of a double holding a gradient (units of 1e-4): 60 is "0.006"
Str(x) ==
    IF IsNaN(x) THEN "nan"
    ELSE IF IsInf(x) THEN (IF x.v > 0 THEN "inf" ELSE "-inf")
    ELSE (IF x.v < 0 THEN "-" ELSE "")
         \o NatStr(AbsInt(x.v) \div 10000) \o "." \o FracStr(AbsInt(x.v) % 10000, 4)


-----------------------------------------------------------------------------
(* The local variables of one invocation.  A name not yet bound is <<>>,   *)
(* a bound one is <<value>>.                                                *)

Unbound == <<>>

Frame0 ==
    [du_dz |-> Unbound, dv_dz |-> Unbound, dsn_dz |-> Unbound, ds_dz |-> Unbound,
     shear_max |-> Unbound, shear_distance |-> Unbound, index_min |-> Unbound,
     chosen_shear |-> Unbound, nan_present |-> Unbound, mask |-> Unbound,
     min_shear |-> Unbound,
     ratio |-> Unbound, enhancement_factor |-> Unbound, hijacked_factor |-> Unbound]

\* What a step leaves: the exception it raised ("" for none), the frame, and the
\* lines it wrote to standard output.
Ok(f, lines) == [exc |-> "", f |-> f, written |-> lines]
Raise(e, f, lines) == [exc |-> e, f |-> f, written |-> lines]

\* shear_options = [2e-3, 4e-3, 6e-3]
shear_options == <<Fin(20), Fin(40), Fin(60)>>

\* the literal 2e-3 of the NaN override and of the print condition
LowestShear == Fin(20)

\* du_dz, dv_dz, dsn_dz (wind_shear_normal only), ds_dz
StepGradients(fn, a, f) ==
    LET du_num == Bin("-", a.u_wind_top, a.u_wind_btm)
        dv_num == Bin("-", a.v_wind_top, a.v_wind_btm)
        du == Bin("/grad", du_num, a.dz)
        dv == Bin("/grad", dv_num, a.dz)
        dsn == Bin("-", Bin("*", dv, a.cos_a), Bin("*", du, a.sin_a))
        ds == Map("**0.5", Bin("+", Map("**2", du), Map("**2", dv)))
    IN  IF TrueDivRaises(du_num, a.dz) THEN Raise("ZeroDivisionError", f, <<>>)
        ELSE IF TrueDivRaises(dv_num, a.dz)
             THEN Raise("ZeroDivisionError", [f EXCEPT !.du_dz = <<du>>], <<>>)
        ELSE IF fn = "wind_shear_normal"
             THEN Ok([f EXCEPT !.du_dz = <<du>>, !.dv_dz = <<dv>>,
                               !.dsn_dz = <<dsn>>, !.ds_dz = <<ds>>], <<>>)
        ELSE Ok([f EXCEPT !.du_dz = <<du>>, !.dv_dz = <<dv>>, !.ds_dz = <<ds>>], <<>>)

DistanceRowSigned(shear, shear_max) ==
    [j \in 1..Len(shear_options) |-> Sub(shear_options[j], shear_max)]

\* one pass of "for shear in shear_options": np.abs(shear_options - shear_max)
DistanceRow(shear, shear_max) ==
    [j \in 1..Len(shear_options) |-> Abs(Sub(shear_options[j], shear_max))]

\* the array the NaN check reads and the fill overwrites
Governing(fn, f) == IF fn = "wind_shear_normal" THEN f.dsn_dz[1] ELSE f.ds_dz[1]

MagnitudeFromGoverning(fn, f) == Governing(fn, f)

\* the array shear_max is taken from: np.max(ds_dz) in both functions
MagnitudeArray(fn, f) == f.ds_dz[1]

\* shear_max, shear_distance, index_min, chosen_shear
StepSelect(fn, a, f) ==
    LET ds == MagnitudeArray(fn, f)
        shear_max == Maximum(ds.data)
        shear_distance == [i \in 1..Len(shear_options) |->
                               DistanceRow(shear_options[i], shear_max)]
        index_min == ArgMin(Flatten(shear_distance))
        f1 == [f EXCEPT !.shear_max = <<shear_max>>,
                        !.shear_distance = <<shear_distance>>,
                        !.index_min = <<index_min>>]
    IN  IF Len(ds.data) = 0 THEN Raise("ValueError", f, <<>>)
        ELSE IF index_min >= Len(shear_options) THEN Raise("IndexError", f1, <<>>)
        ELSE Ok([f1 EXCEPT !.chosen_shear = <<shear_options[index_min + 1]>>], <<>>)

StepNanCheckNoOverride(fn, a, f) ==
    IF HasNaN(Governing(fn, f))
    THEN Ok([f EXCEPT !.nan_present = <<TRUE>>],
            IF fn = "wind_shear_normal" THEN <<"Removed NaN!">> ELSE <<>>)
    ELSE Ok([f EXCEPT !.nan_present = <<FALSE>>], <<>>)

\* if np.isnan(...).any(): chosen_shear = 2e-3; nan_present = True
StepNanCheck(fn, a, f) ==
    IF HasNaN(Governing(fn, f))
    THEN Ok([f EXCEPT !.chosen_shear = <<LowestShear>>, !.nan_present = <<TRUE>>],
            IF fn = "wind_shear_normal" THEN <<"Removed NaN!">> ELSE <<>>)
    ELSE Ok([f EXCEPT !.nan_present = <<FALSE>>], <<>>)

\* the value np.where writes where the mask holds
FillValue(fn, chosen) == IF fn = "wind_shear_normal" THEN Neg(chosen) ELSE chosen

WhereSwapped(mask, x, y) ==
    [kind |-> "np", shape |-> y.shape,
     data |-> [i \in 1..Len(y.data) |-> IF mask[i] THEN y.data[i] ELSE x]]

WhereScalar(mask, x, y) == Np0(x)

\* np.where(mask, x, y): x where the mask holds, y elsewhere
Where(mask, x, y) ==
    [kind |-> "np", shape |-> y.shape,
     data |-> [i \in 1..Len(y.data) |-> IF mask[i] THEN x ELSE y.data[i]]]

\* the frame with the governing array rebound to x
Rebind(fn, f, x) ==
    IF fn = "wind_shear_normal" THEN [f EXCEPT !.dsn_dz = <<x>>] ELSE [f EXCEPT !.ds_dz = <<x>>]

\* mask = np.full(shape, True); the governing array rebound to np.where(...);
\* min_shear = np.min(...), which raises on an array of no elements
StepFill(fn, a, f) ==
    LET g == Governing(fn, f)
        mask == [i \in 1..Len(g.data) |-> TRUE]
        filled == Where(mask, FillValue(fn, f.chosen_shear[1]), g)
        f1 == Rebind(fn, [f EXCEPT !.mask = <<mask>>], filled)
    IN  IF g.kind = "py" THEN Raise("AttributeError", f, <<>>)
        ELSE IF Len(filled.data) = 0 THEN Raise("ValueError", f1, <<>>)
        ELSE Ok([f1 EXCEPT !.min_shear = <<Minimum(filled.data)>>], <<>>)

Label(fn) == IF fn = "wind_shear_normal" THEN "NORMAL shear: " ELSE "Shear : "

StepReportAlways(fn, a, f) == Ok(f, <<Label(fn) \o Str(f.min_shear[1])>>)

\* if chosen_shear != 2e-3 or nan_present: print(label + str(min_shear))
StepReport(fn, a, f) ==
    IF f.chosen_shear[1] # LowestShear \/ f.nan_present[1]
    THEN Ok(f, <<Label(fn) \o Str(f.min_shear[1])>>)
    ELSE Ok(f, <<>>)


\* ratio = effective_vertical_resolution / contrail_depth
StepRatio(fn, a, f) ==
    IF TrueDivRaises(a.effective_vertical_resolution, a.contrail_depth)
    THEN Raise("ZeroDivisionError", f, <<>>)
    ELSE Ok([f EXCEPT !.ratio =
                 <<Bin("/ratio", a.effective_vertical_resolution, a.contrail_depth)>>], <<>>)

\* enhancement_factor = 0.5 * (1.0 + ratio**wind_shear_enhancement_exponent),
\* held in units of 0.5
StepFactor(fn, a, f) ==
    Ok([f EXCEPT !.enhancement_factor =
            <<Map("0.5*(1.0+x)", Bin("**", f.ratio[1], a.wind_shear_enhancement_exponent))>>],
       <<>>)

HijackedEnhanced(f) == f.enhancement_factor[1]

\* the literal 1.0, in units of 0.5
HijackedFactor(f) == Py(Fin(2))

\* hijacked_factor = 1.0
StepHijack(fn, a, f) == Ok([f EXCEPT !.hijacked_factor = <<HijackedFactor(f)>>], <<>>)

-----------------------------------------------------------------------------
(* A whole call: the steps in program order, stopped by the first exception *)

Steps(fn) ==
    IF fn = "wind_shear_enhancement_factor" THEN <<"ratio", "factor", "hijack">>
    ELSE <<"gradients", "select", "nancheck", "fill", "report">>

Step(p, fn, a, f) ==
    CASE p = "gradients" -> StepGradients(fn, a, f)
      [] p = "select" -> StepSelect(fn, a, f)
      [] p = "nancheck" -> StepNanCheck(fn, a, f)
      [] p = "fill" -> StepFill(fn, a, f)
      [] p = "report" -> StepReport(fn, a, f)
      [] p = "ratio" -> StepRatio(fn, a, f)
      [] p = "factor" -> StepFactor(fn, a, f)
      [] p = "hijack" -> StepHijack(fn, a, f)

\* the return statement of each function
ReturnValue(fn, f) ==
    IF fn = "wind_shear_enhancement_factor" THEN f.hijacked_factor[1]
    ELSE IF fn = "wind_shear_normal" THEN f.dsn_dz[1]
    ELSE f.ds_dz[1]

Returned(fn, f, lines) == [exc |-> "", value |-> <<ReturnValue(fn, f)>>, f |-> f, written |-> lines]
Raised(e, f, lines) == [exc |-> e, value |-> <<>>, f |-> f, written |-> lines]

RECURSIVE Run(_, _, _, _, _)
Run(i, fn, a, f, lines) ==
    IF i > Len(Steps(fn)) THEN Returned(fn, f, lines)
    ELSE LET r == Step(Steps(fn)[i], fn, a, f)
         IN  IF r.exc # "" THEN Raised(r.exc, r.f, lines \o r.written)
             ELSE Run(i + 1, fn, a, r.f, lines \o r.written)

Call(fn, a) == Run(1, fn, a, Frame0, <<>>)

-----------------------------------------------------------------------------
(* The callers' arguments *)

\* a Python float or a NumPy scalar holding one of scalars, or an array of
\* 0..MaxLen elements whose first element is a head value and whose other elements
\* are a tail value
Forms(scalars, heads, tails) ==
    {Py(h) : h \in scalars} \cup {Np0(h) : h \in scalars} \cup {Np1(<<>>)}
    \cup {Np1([i \in 1..n |-> IF i = 1 THEN hd ELSE tl]) :
              n \in 1..MaxLen, hd \in heads, tl \in tails}

Uniform(vals) == UNION {Forms({x}, {x}, {x}) : x \in vals}

UWindTop == Forms({Fin(0), Fin(5)}, {Fin(0), Fin(3), Fin(5), Fin(10)}, {Fin(0)})
\* (u_wind_btm, v_wind_btm): still air below, as two floats or two one-element arrays
WindBtm == {[u |-> Py(Fin(0)), v |-> Py(Fin(0))],
            [u |-> Np1(<<Fin(0)>>), v |-> Np1(<<Fin(0)>>)]}
VWindTop == {x \in Uniform({Fin(0), Fin(3)}) : x.kind = "py" \/ x.shape # <<>>}
Dz == {Py(Fin(0)), Py(Fin(1000))}

\* (cos_a, sin_a) in tenths; a NaN cosine stands for a degenerate segment
AxisCos(p) == CASE p = "east" -> Fin(10) [] p = "north" -> Fin(0)
                [] p = "oblique" -> Fin(6) [] p = "degenerate" -> NaN
AxisSin(p) == CASE p = "east" -> Fin(0) [] p = "north" -> Fin(10)
                [] p = "oblique" -> Fin(-8) [] p = "degenerate" -> Fin(0)
AxisNames == {"east", "oblique", "degenerate"}

Axes ==
    {[cos_a |-> Py(AxisCos(p)), sin_a |-> Py(AxisSin(p))] : p \in AxisNames}
    \cup {[cos_a |-> Np0(AxisCos(p)), sin_a |-> Np0(AxisSin(p))] : p \in {"oblique"}}
    \cup {[cos_a |-> Np1(<<>>), sin_a |-> Np1(<<>>)]}
    \cup {[cos_a |-> Np1([i \in 1..n |-> IF i = 1 THEN AxisCos(p) ELSE AxisCos("east")]),
           sin_a |-> Np1([i \in 1..n |-> IF i = 1 THEN AxisSin(p) ELSE AxisSin("east")])] :
              n \in 1..MaxLen, p \in AxisNames}

AllBroadcastable(shapes) == \A s \in shapes, t \in shapes : Broadcastable(s, t)

ShearArgs ==
    {[u_wind_top |-> ut, u_wind_btm |-> btm.u, v_wind_top |-> vt, v_wind_btm |-> btm.v,
      cos_a |-> ax.cos_a, sin_a |-> ax.sin_a, dz |-> dz] :
         ut \in UWindTop, btm \in WindBtm, vt \in VWindTop, ax \in Axes, dz \in Dz}

ValidShearArgs ==
    {a \in ShearArgs : AllBroadcastable({a.u_wind_top.shape, a.u_wind_btm.shape,
                                          a.v_wind_top.shape, a.v_wind_btm.shape,
                                          a.cos_a.shape, a.sin_a.shape})}

EnhancementArgs ==
    {[contrail_depth |-> d, effective_vertical_resolution |-> r,
      wind_shear_enhancement_exponent |-> n] :
         d \in {x \in Forms({Fin(50)}, {Fin(0), Fin(50), Fin(200)}, {Fin(100)}) :
                    x.kind = "np"},
         r \in {Py(Fin(200)), Py(Fin(0)), Np0(Fin(200)), Np1(<<Fin(200)>>)},
         n \in {Py(Fin(0)), Py(Fin(2)), Np1(<<Fin(1)>>)}}

DefaultShearArgs ==
    [u_wind_top |-> Np1(<<Fin(5), Fin(10)>>), u_wind_btm |-> Np1(<<Fin(0)>>),
     v_wind_top |-> Np1(<<Fin(0)>>), v_wind_btm |-> Py(Fin(0)),
     cos_a |-> Py(Fin(10)), sin_a |-> Py(Fin(0)), dz |-> Py(Fin(1000))]

DefaultEnhancementArgs ==
    [contrail_depth |-> Np1(<<Fin(50)>>), effective_vertical_resolution |-> Py(Fin(200)),
     wind_shear_enhancement_exponent |-> Py(Fin(2))]

-----------------------------------------------------------------------------
(* Sequential callers: one set of arguments, the functions called on it *)

NoCallers == [c \in {} |-> 0]

Init ==
    /\ \/ scenario = "shear" /\ args \in ValidShearArgs /\ ef_args = DefaultEnhancementArgs
       \/ scenario = "factor" /\ args = DefaultShearArgs /\ ef_args \in EnhancementArgs
    /\ ret_ws = <<>>
    /\ ret_wsn = <<>>
    /\ ret_ef = <<>>
    /\ calls = NoCallers
    /\ pc = NoCallers
    /\ frame = NoCallers
    /\ ret = NoCallers
    /\ stdout = <<>>

wind_shear ==
    /\ scenario = "shear"
    /\ ret_ws' = <<Call("wind_shear", args)>>
    /\ UNCHANGED <<scenario, args, ef_args, ret_wsn, ret_ef, concvars>>

wind_shear_normal ==
    /\ scenario = "shear"
    /\ ret_wsn' = <<Call("wind_shear_normal", args)>>
    /\ UNCHANGED <<scenario, args, ef_args, ret_ws, ret_ef, concvars>>

wind_shear_enhancement_factor ==
    /\ scenario = "factor"
    /\ ret_ef' = <<Call("wind_shear_enhancement_factor", ef_args)>>
    /\ UNCHANGED <<scenario, args, ef_args, ret_ws, ret_wsn, concvars>>

Next == wind_shear \/ wind_shear_normal \/ wind_shear_enhancement_factor

Spec == Init /\ [][Next]_vars


-----------------------------------------------------------------------------
(* Concurrent callers: each runs one call, one statement group at a time,  *)
(* interleaved with the others.  A function's names are local to the       *)
(* invocation (the module has no global or nonlocal statement and no       *)
(* module-level variable), so caller c's names live in frame c.  The only  *)
(* thing the invocations share is the standard output stream.              *)

Callers == 1..NCallers

SlotShared(c) == 1

\* the frame that holds caller c's local names
Slot(c) == c

ZeroDzArgs == [DefaultShearArgs EXCEPT !.u_wind_top = Np1(<<Fin(0), Fin(5)>>),
                                       !.dz = Py(Fin(0))]
CalmArgs == [DefaultShearArgs EXCEPT !.u_wind_top = Np1(<<Fin(3)>>)]
DegenerateArgs == [DefaultShearArgs EXCEPT !.cos_a = Np1(<<NaN, Fin(10)>>),
                                           !.sin_a = Np1(<<Fin(0), Fin(0)>>)]
FloatArgs == [DefaultShearArgs EXCEPT !.u_wind_top = Py(Fin(5)), !.u_wind_btm = Py(Fin(0)),
                                      !.v_wind_top = Py(Fin(0))]

ConcCalls ==
    {[fn |-> "wind_shear", a |-> DefaultShearArgs],
     [fn |-> "wind_shear", a |-> ZeroDzArgs],
     [fn |-> "wind_shear", a |-> FloatArgs],
     [fn |-> "wind_shear_normal", a |-> CalmArgs],
     [fn |-> "wind_shear_normal", a |-> DegenerateArgs],
     [fn |-> "wind_shear_enhancement_factor", a |-> DefaultEnhancementArgs]}

\* pc[c]: the index of the next step; one past the last is the return statement;
\* 0 once the call has returned or raised
Finished == 0

InitConc ==
    /\ scenario = "concurrent"
    /\ args = DefaultShearArgs
    /\ ef_args = DefaultEnhancementArgs
    /\ ret_ws = <<>>
    /\ ret_wsn = <<>>
    /\ ret_ef = <<>>
    /\ calls \in [Callers -> ConcCalls]
    /\ pc = [c \in Callers |-> 1]
    /\ frame = [c \in Callers |-> Frame0]
    /\ ret = [c \in Callers |-> <<>>]
    /\ stdout = <<>>

Execute(c) ==
    /\ pc[c] # Finished
    /\ pc[c] <= Len(Steps(calls[c].fn))
    /\ LET fn == calls[c].fn
           r == Step(Steps(fn)[pc[c]], fn, calls[c].a, frame[Slot(c)])
       IN  /\ frame' = [frame EXCEPT ![Slot(c)] = r.f]
           /\ stdout' = stdout \o r.written
           /\ pc' = [pc EXCEPT ![c] = IF r.exc # "" THEN Finished ELSE pc[c] + 1]
           /\ ret' = [ret EXCEPT ![c] = IF r.exc # ""
                                        THEN <<[exc |-> r.exc, value |-> <<>>]>>
                                        ELSE ret[c]]
    /\ UNCHANGED <<seqvars, calls>>

Return(c) ==
    /\ pc[c] = Len(Steps(calls[c].fn)) + 1
    /\ ret' = [ret EXCEPT ![c] =
                  <<[exc |-> "", value |-> <<ReturnValue(calls[c].fn, frame[Slot(c)])>>]>>]
    /\ pc' = [pc EXCEPT ![c] = Finished]
    /\ UNCHANGED <<seqvars, calls, frame, stdout>>

NextConc == \E c \in Callers : Execute(c) \/ Return(c)

SpecConc == InitConc /\ [][NextConc]_vars


-----------------------------------------------------------------------------
(* Properties *)

\* the calls of the two shear functions that have finished, with what they left
Completed ==
    {[fn |-> "wind_shear", r |-> ret_ws[i]] : i \in DOMAIN ret_ws}
    \cup {[fn |-> "wind_shear_normal", r |-> ret_wsn[i]] : i \in DOMAIN ret_wsn}

HasReturned(c) == c.r.exc = ""
Out(c) == c.r.value[1]

\* the gradients of the current arguments, before anything is overwritten
GradientsRan(fn) == StepGradients(fn, args, Frame0).exc = ""
GoverningOf(fn) == Governing(fn, StepGradients(fn, args, Frame0).f)
MagnitudeOf(fn) == StepGradients(fn, args, Frame0).f.ds_dz[1]

Buckets == {Fin(20), Fin(40), Fin(60)}
Signed(fn, b) == IF fn = "wind_shear_normal" THEN Fin(-b.v) ELSE b

Lt(x, y) == Le(x, y) /\ x # y
Distance(b, m) == Abs(Sub(b, m))

\* argmin over the three buckets of |b - m|, ties to the smaller bucket
NearestBucket(m) ==
    CHOOSE b \in Buckets : \A o \in Buckets :
        \/ Lt(Distance(b, m), Distance(o, m))
        \/ (Distance(b, m) = Distance(o, m) /\ b.v <= o.v)

\* a call that got as far as choosing an index, on a governing array without NaN
SelectedWithoutNaN(c) ==
    /\ c.r.f.index_min # Unbound
    /\ ~HasNaN(GoverningOf(c.fn))

\* C2: with no NaN in the governing array, the flattened index of the minimum of
\* the 3x3 distance matrix (three identical rows) is 0, 1 or 2, and both the
\* candidate it indexes and the candidate at index % 3 are the bucket nearest to
\* M = max(ds_dz), ties to the smaller bucket.
C2_NearestBucketChosen ==
    \A c \in Completed : SelectedWithoutNaN(c) =>
        LET f == c.r.f
            m == f.shear_max[1]
        IN  /\ m = Maximum(MagnitudeOf(c.fn).data)
            /\ Len(f.shear_distance[1]) = 3
            /\ \A i \in 1..3 : f.shear_distance[1][i] =
                   [j \in 1..3 |-> Distance(shear_options[j], m)]
            /\ f.index_min[1] \in {0, 1, 2}
            /\ f.chosen_shear = <<NearestBucket(m)>>
            /\ shear_options[(f.index_min[1] % 3) + 1] = NearestBucket(m)

\* a tie at M = 0.005 between 0.004 and 0.006 went to 0.004 in both functions
C2_Witness ==
    /\ ret_ws # <<>> /\ ret_wsn # <<>>
    /\ SelectedWithoutNaN([fn |-> "wind_shear", r |-> ret_ws[1]])
    /\ SelectedWithoutNaN([fn |-> "wind_shear_normal", r |-> ret_wsn[1]])
    /\ ret_ws[1].f.shear_max = <<Fin(50)>>
    /\ ret_ws[1].f.index_min = <<1>>
    /\ ret_wsn[1].f.chosen_shear = <<Fin(40)>>

\* a call whose gradients were computed and whose governing array holds a NaN
GoverningHasNaN(c) == GradientsRan(c.fn) /\ HasNaN(GoverningOf(c.fn))

\* C3: a NaN anywhere in the governing array (ds_dz for wind_shear, dsn_dz for
\* wind_shear_normal) makes the chosen bucket 0.002 whatever M is, sets
\* nan_present, and a returned array is all +0.002 or all -0.002.
C3_NaNForcesLowestBucket ==
    \A c \in Completed : GoverningHasNaN(c) =>
        /\ c.r.f.chosen_shear = <<Fin(20)>>
        /\ c.r.f.nan_present = <<TRUE>>
        /\ HasReturned(c) =>
              \A i \in 1..Len(Out(c).data) : Out(c).data[i] = Signed(c.fn, Fin(20))

\* wind_shear_normal met a NaN in dsn_dz while M = 0.010 alone selects 0.006
\* (index 2), and returned -0.002
C3_Witness ==
    /\ ret_wsn # <<>>
    /\ GoverningHasNaN([fn |-> "wind_shear_normal", r |-> ret_wsn[1]])
    /\ ret_wsn[1].f.shear_max = <<Fin(100)>>
    /\ ret_wsn[1].f.index_min = <<2>>
    /\ ret_wsn[1].exc = ""
    /\ ret_wsn[1].value[1].data = <<Fin(-20), Fin(-20)>>

BroadcastAll(shapes) ==
    LET dims == {s[1] : s \in {t \in shapes : t # <<>>}}
    IN  IF dims = {} THEN <<>>
        ELSE IF dims = {1} THEN <<1>>
        ELSE <<CHOOSE d \in dims : d # 1>>

WindShape == BroadcastAll({args.u_wind_top.shape, args.u_wind_btm.shape,
                           args.v_wind_top.shape, args.v_wind_btm.shape})
InputShape(fn) ==
    IF fn = "wind_shear_normal"
    THEN BroadcastAll({WindShape, args.cos_a.shape, args.sin_a.shape})
    ELSE WindShape

\* C5 as stated: the returned array has the broadcast shape of the four wind
\* components, also when cos_a or sin_a has a larger shape.
C5_Original_ShapeOfWindComponents ==
    \A c \in Completed : HasReturned(c) => Out(c).shape = WindShape

\* C5 amended: the returned array has the broadcast shape of the four wind
\* components and, for wind_shear_normal, of cos_a and sin_a as well.
C5_ShapeOfAllArrayInputs ==
    \A c \in Completed : HasReturned(c) => Out(c).shape = InputShape(c.fn)

\* wind_shear_normal returned two elements for one-element winds and a
\* two-element axis, wind_shear one element
C5_Witness ==
    /\ ret_ws # <<>> /\ ret_wsn # <<>>
    /\ ret_ws[1].exc = "" /\ ret_wsn[1].exc = ""
    /\ WindShape = <<1>>
    /\ args.cos_a.shape = <<2>>
    /\ ret_wsn[1].value[1].shape = <<2>>
    /\ ret_ws[1].value[1].shape = <<1>>

\* C6: every call of wind_shear and wind_shear_normal, on scalars or arrays,
\* zero-length arrays and dz = 0 included, returns: none ends in a raised error.
C6_NoCallRaises ==
    \A c \in Completed : HasReturned(c)


\* a call of wind_shear on all-float winds raised AttributeError at ".shape", and
\* a call of wind_shear_normal on a zero-length array raised ValueError
C6_Witness ==
    /\ ret_ws # <<>> /\ ret_wsn # <<>>
    /\ ret_ws[1].exc = "AttributeError"
    /\ ret_wsn[1].exc = "ValueError"

BothReturned ==
    /\ ret_ws # <<>> /\ ret_wsn # <<>>
    /\ ret_ws[1].exc = "" /\ ret_wsn[1].exc = ""

NegArray(x) == [x EXCEPT !.data = [i \in 1..Len(x.data) |-> Neg(x.data[i])]]

\* C7 as stated: for the same winds and dz, and cos_a, sin_a that leave dsn_dz
\* free of NaN, the output of wind_shear_normal is the element-wise negation of
\* the output of wind_shear (and so does not depend on cos_a, sin_a).
C7_Original_NormalIsNegatedTotal ==
    (BothReturned /\ ~HasNaN(GoverningOf("wind_shear_normal")))
        => ret_wsn[1].value[1] = NegArray(ret_ws[1].value[1])

\* C7 amended: under the same conditions wind_shear_normal takes shear_max from
\* ds_dz and chooses the bucket wind_shear chooses, so every element of its
\* output is the negation of every element of wind_shear's output; its shape is
\* the broadcast shape that includes cos_a and sin_a, and the two arrays are
\* negations of each other exactly when that is the winds' own broadcast shape.
C7_NormalBucketIsTotalBucket ==
    (BothReturned /\ ~HasNaN(GoverningOf("wind_shear_normal"))) =>
        LET n == ret_wsn[1]
            t == ret_ws[1]
        IN  /\ n.f.shear_max = t.f.shear_max
            /\ n.f.shear_max = <<Maximum(MagnitudeOf("wind_shear_normal").data)>>
            /\ n.f.chosen_shear = t.f.chosen_shear
            /\ \A i \in 1..Len(n.value[1].data), j \in 1..Len(t.value[1].data) :
                   n.value[1].data[i] = Neg(t.value[1].data[j])
            /\ (n.value[1] = NegArray(t.value[1]))
                   <=> (InputShape("wind_shear_normal") = WindShape)

\* an oblique axis, whose projection dsn_dz differs from the magnitude ds_dz, and
\* the top bucket in both functions
C7_Witness ==
    /\ BothReturned
    /\ ~HasNaN(GoverningOf("wind_shear_normal"))
    /\ args.cos_a.data = <<Fin(6), Fin(10)>>
    /\ args.sin_a.data = <<Fin(-8), Fin(0)>>
    /\ ret_ws[1].value[1].data = <<Fin(60), Fin(60)>>
    /\ ret_wsn[1].value[1].data = <<Fin(-60), Fin(-60)>>

\* the text of a signed bucket
BucketText(x) ==
    CASE x = Fin(20) -> "0.002" [] x = Fin(40) -> "0.004" [] x = Fin(60) -> "0.006"
      [] x = Fin(-20) -> "-0.002" [] x = Fin(-40) -> "-0.004" [] x = Fin(-60) -> "-0.006"

Reports(c) == c.r.f.chosen_shear[1] # Fin(20) \/ c.r.f.nan_present[1]

DiagnosticLine(c) ==
    (IF c.fn = "wind_shear_normal" THEN "NORMAL shear: " ELSE "Shear : ")
        \o BucketText(Minimum(Out(c).data))

\* C8 as stated: a call writes to standard output iff its bucket is not 0.002
\* or a NaN was present, and then exactly one line, the label followed by the
\* minimum of the output.
C8_Original_OneDiagnosticLine ==
    \A c \in Completed : HasReturned(c) =>
        c.r.written = IF Reports(c) THEN <<DiagnosticLine(c)>> ELSE <<>>

\* C8 amended: a call that returns writes iff its bucket is not 0.002 or a NaN
\* was present; wind_shear then writes the one line "Shear : " + minimum, and
\* wind_shear_normal the line "NORMAL shear: " + minimum, preceded by the line
\* "Removed NaN!" when a NaN was present; nothing else is written.
C8_DiagnosticLines ==
    \A c \in Completed : HasReturned(c) =>
        c.r.written =
            (IF c.fn = "wind_shear_normal" /\ c.r.f.nan_present[1]
             THEN <<"Removed NaN!">> ELSE <<>>)
            \o (IF Reports(c) THEN <<DiagnosticLine(c)>> ELSE <<>>)

\* wind_shear_normal wrote two lines on a NaN, wind_shear (same arguments, no NaN
\* in ds_dz, top bucket) wrote one
C8_Witness ==
    /\ BothReturned
    /\ ret_wsn[1].written = <<"Removed NaN!", "NORMAL shear: -0.002">>
    /\ ret_ws[1].written = <<"Shear : 0.006">>

\* array winds whose broadcast shape has at least one element, and dz = 0
ArrayCallAtZeroDz(fn) ==
    /\ args.dz = Py(Fin(0))
    /\ \A x \in {args.u_wind_top, args.u_wind_btm, args.v_wind_top, args.v_wind_btm} :
           x.kind = "np" /\ x.shape # <<>>
    /\ InputShape(fn) # <<0>>

\* C9 as stated: for array inputs with dz = 0 a call that returns leaves the
\* lowest bucket in every element and nan_present true, whether the wind
\* differences are zero or not.
C9_Original_ZeroDzSetsNanPresent ==
    \A c \in Completed : (ArrayCallAtZeroDz(c.fn) /\ HasReturned(c)) =>
        /\ c.r.f.nan_present = <<TRUE>>
        /\ \A i \in 1..Len(Out(c).data) : Out(c).data[i] = Signed(c.fn, Fin(20))

\* some element has a zero u or v wind difference
SomeZeroDifference ==
    LET du == Bin("-", args.u_wind_top, args.u_wind_btm)
        dv == Bin("-", args.v_wind_top, args.v_wind_btm)
    IN  \/ \E i \in 1..Len(du.data) : du.data[i] = Fin(0)
        \/ \E i \in 1..Len(dv.data) : dv.data[i] = Fin(0)

\* C9 amended: for array inputs of finite winds with at least one element and
\* dz = 0, both functions return an array of the inputs' broadcast shape filled
\* with the lowest bucket (+0.002, -0.002); nan_present is true exactly when the
\* governing array holds a NaN, which for wind_shear is exactly when some element
\* has a zero u or v difference (0/0); when every difference is non-zero, ds_dz
\* is +inf everywhere, nan_present is false in wind_shear, and the bucket is
\* 0.002 because the minimum of the all-infinite distances is found at index 0.
C9_ZeroDzLowestBucket ==
    \A c \in Completed : ArrayCallAtZeroDz(c.fn) =>
        /\ HasReturned(c)
        /\ Out(c).shape = InputShape(c.fn)
        /\ \A i \in 1..Len(Out(c).data) : Out(c).data[i] = Signed(c.fn, Fin(20))
        /\ c.r.f.nan_present = <<HasNaN(GoverningOf(c.fn))>>
        /\ c.fn = "wind_shear" => (c.r.f.nan_present[1] <=> SomeZeroDifference)
        /\ ~SomeZeroDifference =>
              /\ c.r.f.shear_max = <<PInf>>
              /\ c.r.f.index_min = <<0>>

\* dz = 0 with non-zero u and v differences: wind_shear returned +0.002 with
\* nan_present false and wrote nothing
C9_Witness ==
    /\ ret_ws # <<>>
    /\ ArrayCallAtZeroDz("wind_shear")
    /\ ~SomeZeroDifference
    /\ ret_ws[1].exc = ""
    /\ ret_ws[1].f.nan_present = <<FALSE>>
    /\ ret_ws[1].value[1].data = <<Fin(20)>>
    /\ ret_ws[1].written = <<>>

\* what a call leaves when it runs alone
Alone(call) ==
    LET r == Call(call.fn, call.a) IN [exc |-> r.exc, value |-> r.value]

====
